---------------------------- MODULE Spec2Model ----------------------------
(***************************************************************************)
(* Model of src/transform.js: the BPMN fragmentation / masking rewriter.   *)
(*                                                                         *)
(* The document is the record doc.  Every field is a sequence in document  *)
(* order, as the DOM keeps its children:                                   *)
(*   tasks   task elements            [id, privacy]                        *)
(*   flows   sequenceFlow elements    [id, src, tgt, coupling]             *)
(*   assocs  association elements     [id, src, tgt]                       *)
(*   annots  textAnnotation elements  (their ids)                          *)
(*   groups  group elements           [id, frag]  frag: has cpl:fragmentId *)
(*   cats    categoryValue elements   (their ids)                          *)
(*   shapes  BPMNShape elements       (their bpmnElement)                  *)
(*   edges   BPMNEdge elements        (their bpmnElement)                  *)
(*   plane   whether a BPMNPlane exists                                    *)
(* An id is a string; "" is a missing id attribute.  A numeric attribute   *)
(* (cpl:privacy, cpl:coupling) is the record [k, v]: k = "absent" (no      *)
(* attribute), "text" (an attribute that is no number) or "num" (the       *)
(* number v, in tenths).  The geometry of the shapes and the               *)
(* bpmn:category element that holds the category values are left out.      *)
(***************************************************************************)
EXTENDS Integers, Sequences, FiniteSets, TLC

VARIABLES
    doc,            \* the document
    pc,             \* "idle", or the position inside maskByPrivacy: "synth", "excise"
    lastOp,         \* the operation main ran last: "none", "clear", "fragment", "mask"
    opts,           \* the options of that operation: [threshold, dir, includeSingletons]
    runs,           \* number of operations run so far
    lastCount,      \* the count the last fragment / mask run returned
    comps,          \* fragmentByCoupling: comps (member ids of each retained class)
    maskedIds,      \* maskByPrivacy: maskedIds
    allFlows,       \* maskByPrivacy: allFlows, the flows snapshot behind flowsBySource/flowsByTarget
    preAssocs,      \* the associations in the document when the masking run started
    outer,          \* maskByPrivacy: index of the outer maskedIds.forEach
    counter,        \* maskByPrivacy: counter
    removedFlowIds, \* maskByPrivacy: removedFlowIds
    autoFlowPairs,  \* maskByPrivacy: autoFlowPairs
    created,        \* the flows synthesized by the current masking run, in creation order
    boundary        \* the collectBoundaryNeighbors results of the last synthesis pass

vars == <<doc, pc, lastOp, opts, runs, lastCount, comps, maskedIds, allFlows, preAssocs,
          outer, counter, removedFlowIds, autoFlowPairs, created, boundary>>

maskVars == <<maskedIds, allFlows, preAssocs, outer, counter, removedFlowIds,
              autoFlowPairs, created, boundary>>

----------------------------------------------------------------------------
(* Bounds of the model *)

MaxFlows == 4       \* flows of an initial document
MaxFragFlows == 2   \* weighted flows of an initial document of the fragmentation specification
MaxSessionFlows == 1 \* flows next to the ring in an initial document of the session specification
MaxRuns == 2        \* operations run in a row on one document

----------------------------------------------------------------------------
(* Sequence helpers *)

Range(s) == { s[i] : i \in 1..Len(s) }

RECURSIVE Concat(_)
Concat(ss) == IF ss = <<>> THEN <<>> ELSE Head(ss) \o Concat(Tail(ss))

\* removeChild(n): the first element equal to n leaves the sequence
RECURSIVE RemoveFirst(_, _)
RemoveFirst(s, x) ==
    IF s = <<>> THEN <<>>
    ELSE IF Head(s) = x THEN Tail(s)
    ELSE <<Head(s)>> \o RemoveFirst(Tail(s), x)

\* Set.add on an insertion-ordered set
AddOrdered(s, x) == IF x \in Range(s) THEN s ELSE Append(s, x)

NoDup(s) == \A i, j \in 1..Len(s) : s[i] = s[j] => i = j

----------------------------------------------------------------------------
(* Attributes *)

Absent == [k |-> "absent", v |-> 0]
TextAttr == [k |-> "text", v |-> 0]
Num(n) == [k |-> "num", v |-> n]

\* parseFloat of an attribute value; <<>> is NaN
ParseFloat(a) == IF a.k = "num" THEN <<a.v>> ELSE <<>>

----------------------------------------------------------------------------
(* Layout removal and the orphan cascade *)

\* ensurePlane: the plane exists afterwards
EnsurePlane(d) == [d EXCEPT !.plane = TRUE]

RemoveDIShapeForElement(d, elId) ==
    [d EXCEPT !.shapes = SelectSeq(@, LAMBDA s : s # elId)]

RemoveDIEdgeForElement(d, elId) ==
    [d EXCEPT !.edges = SelectSeq(@, LAMBDA e : e # elId)]

Touches(a, elId) == a.src = elId \/ a.tgt = elId

CountAssociationsTouching(d, elId) ==
    Len(SelectSeq(d.assocs, LAMBDA a : Touches(a, elId)))

MaybeRemoveTextAnnotationIfOrphaned(d, taId) ==
    IF CountAssociationsTouching(d, taId) > 0 THEN d
    ELSE RemoveDIShapeForElement([d EXCEPT !.annots = RemoveFirst(@, taId)], taId)

RemoveAssociationCascade(d, a) ==
    LET d1 == RemoveDIEdgeForElement(d, a.id)
        d2 == [d1 EXCEPT !.assocs = RemoveFirst(@, a)]
        srcIsTA == a.src \in Range(d2.annots)
        tgtIsTA == a.tgt \in Range(d2.annots)
        d3 == IF srcIsTA THEN MaybeRemoveTextAnnotationIfOrphaned(d2, a.src) ELSE d2
    IN  IF tgtIsTA THEN MaybeRemoveTextAnnotationIfOrphaned(d3, a.tgt) ELSE d3

RECURSIVE CascadeAll(_, _)
CascadeAll(d, touching) ==
    IF touching = <<>> THEN d
    ELSE CascadeAll(RemoveAssociationCascade(d, Head(touching)), Tail(touching))

RemoveAllAssociationsTouchingId(d, elId) ==
    CascadeAll(d, SelectSeq(d.assocs, LAMBDA a : Touches(a, elId)))

----------------------------------------------------------------------------
(* Masking: the boundary resolver *)

\* ExistingFlow, but with the two ends exchanged
ExistingFlowReversed(d, src, tgt) == \E i \in 1..Len(d.flows) : d.flows[i].src = tgt /\ d.flows[i].tgt = src

ExistingFlow(d, src, tgt) == \E i \in 1..Len(d.flows) : d.flows[i].src = src /\ d.flows[i].tgt = tgt

FlowsBySource(fl, id) == SelectSeq(fl, LAMBDA f : f.src = id)
FlowsByTarget(fl, id) == SelectSeq(fl, LAMBDA f : f.tgt = id)

\* Visit, but the traversal goes on through an unmasked node
VisitThroughUnmasked(w, n, maskedSet) ==
    IF n \in maskedSet
    THEN IF n \notin w.seen
         THEN [w EXCEPT !.seen = @ \cup {n}, !.q = Append(@, n)]
         ELSE w
    ELSE IF n \notin w.seen
         THEN [w EXCEPT !.out = AddOrdered(@, n), !.seen = @ \cup {n}, !.q = Append(@, n)]
         ELSE [w EXCEPT !.out = AddOrdered(@, n)]

\* the body of incoming.forEach / outgoing.forEach for one flow whose far end is n;
\* w = [q, seen, out]
Visit(w, n, maskedSet) ==
    IF n \in maskedSet
    THEN IF n \notin w.seen
         THEN [w EXCEPT !.seen = @ \cup {n}, !.q = Append(@, n)]
         ELSE w
    ELSE [w EXCEPT !.out = AddOrdered(@, n)]

RECURSIVE VisitAll(_, _, _)
VisitAll(w, ns, maskedSet) ==
    IF ns = <<>> THEN w ELSE VisitAll(Visit(w, Head(ns), maskedSet), Tail(ns), maskedSet)

\* the far ends of the flows at cur: sources of the incoming ones (up) or targets of
\* the outgoing ones
FarEnds(cur, fl, up) ==
    IF up THEN [i \in 1..Len(FlowsByTarget(fl, cur)) |-> FlowsByTarget(fl, cur)[i].src]
    ELSE [i \in 1..Len(FlowsBySource(fl, cur)) |-> FlowsBySource(fl, cur)[i].tgt]

\* one while loop of collectBoundaryNeighbors
RECURSIVE Walk(_, _, _, _)
Walk(w, fl, maskedSet, up) ==
    IF w.q = <<>> THEN w.out
    ELSE Walk(VisitAll([w EXCEPT !.q = Tail(@)], FarEnds(Head(w.q), fl, up), maskedSet),
              fl, maskedSet, up)

\* CollectBoundaryNeighbors, but one hop only: the direct unmasked neighbours of mid
CollectDirectNeighbors(mid, fl, maskedSet) ==
    [preds |-> VisitAll([q |-> <<>>, seen |-> {mid}, out |-> <<>>], FarEnds(mid, fl, TRUE), maskedSet).out,
     succs |-> VisitAll([q |-> <<>>, seen |-> {mid}, out |-> <<>>], FarEnds(mid, fl, FALSE), maskedSet).out]

CollectBoundaryNeighbors(mid, fl, maskedSet) ==
    [preds |-> Walk([q |-> <<mid>>, seen |-> {mid}, out |-> <<>>], fl, maskedSet, TRUE),
     succs |-> Walk([q |-> <<mid>>, seen |-> {mid}, out |-> <<>>], fl, maskedSet, FALSE)]

----------------------------------------------------------------------------
(* Masking: discovery, synthesis, excision *)

\* ShouldMask, but "above" leaves out the threshold itself
ShouldMaskStrict(p, threshold, dir) ==
    IF p # <<>>
    THEN (IF dir = "above" THEN p[1] > threshold ELSE p[1] < threshold)
    ELSE FALSE

ShouldMask(p, threshold, dir) ==
    IF p # <<>>
    THEN (IF dir = "above" THEN p[1] >= threshold ELSE p[1] < threshold)
    ELSE FALSE

RECURSIVE MaskedIdsOf(_, _, _)
MaskedIdsOf(tasks, threshold, dir) ==
    IF tasks = <<>> THEN <<>>
    ELSE (IF ShouldMask(ParseFloat(Head(tasks).privacy), threshold, dir)
          THEN <<Head(tasks).id>> ELSE <<>>)
         \o MaskedIdsOf(Tail(tasks), threshold, dir)

PairKey(src, tgt) == src \o "->" \o tgt

AutoFlowId(k) == "AutoFlow_" \o ToString(k)

\* the body of succs.forEach for one (src, tgt);
\* st = [doc, counter, pairs, created]
SynthPair(st, src, tgt) ==
    IF src = tgt THEN st
    ELSE IF PairKey(src, tgt) \in st.pairs THEN st
    ELSE IF ExistingFlow(st.doc, src, tgt) THEN st
    ELSE LET newId == AutoFlowId(st.counter + 1)
             nf == [id |-> newId, src |-> src, tgt |-> tgt, coupling |-> Absent]
             hasDI == src \in Range(st.doc.shapes) /\ tgt \in Range(st.doc.shapes)
         IN  [doc |-> [st.doc EXCEPT !.flows = Append(@, nf),
                                     !.edges = IF hasDI THEN Append(@, newId) ELSE @],
              counter |-> st.counter + 1,
              pairs |-> st.pairs \cup {PairKey(src, tgt)},
              created |-> Append(st.created, nf)]

\* preds.forEach(src => succs.forEach(tgt => ...)) as the sequence of its pairs
PairsOf(bn) ==
    [n \in 1..(Len(bn.preds) * Len(bn.succs)) |->
        <<bn.preds[((n - 1) \div Len(bn.succs)) + 1], bn.succs[((n - 1) % Len(bn.succs)) + 1]>>]

RECURSIVE SynthPairs(_, _)
SynthPairs(st, ps) ==
    IF ps = <<>> THEN st ELSE SynthPairs(SynthPair(st, Head(ps)[1], Head(ps)[2]), Tail(ps))

\* the inner maskedIds.forEach: the synthesis pass over the whole masked set
Boundaries(mids, fl) ==
    [n \in 1..Len(mids) |-> CollectBoundaryNeighbors(mids[n], fl, Range(mids))]

SynthPass(st, mids, fl) ==
    SynthPairs(st, Concat([n \in 1..Len(mids) |-> PairsOf(Boundaries(mids, fl)[n])]))

\* the body of toRemove.forEach for one flow; x = [doc, removed]
RemoveFlow(x, f) ==
    IF f.id = "" \/ f.id \in x.removed THEN x
    ELSE LET d1 == RemoveAllAssociationsTouchingId(x.doc, f.id)
             d2 == RemoveDIEdgeForElement(d1, f.id)
         IN  [doc |-> [d2 EXCEPT !.flows = RemoveFirst(@, f)],
              removed |-> x.removed \cup {f.id}]

RECURSIVE RemoveFlows(_, _)
RemoveFlows(x, fs) ==
    IF fs = <<>> THEN x ELSE RemoveFlows(RemoveFlow(x, Head(fs)), Tail(fs))

\* byId.get(mid).parentNode.removeChild: the task element with that id leaves
RemoveTask(d, mid) == [d EXCEPT !.tasks = SelectSeq(@, LAMBDA t : t.id # mid)]

\* Excise, but the flow removal walks one step too far: the flows that leave the
\* targets of mid's outgoing flows are removed as well
ExciseReached(x, mid, fl) ==
    LET out == FlowsBySource(fl, mid)
        beyond == Concat([i \in 1..Len(out) |-> FlowsBySource(fl, out[i].tgt)])
        x1 == RemoveFlows(x, FlowsByTarget(fl, mid) \o out \o beyond)
        d2 == RemoveAllAssociationsTouchingId(x1.doc, mid)
    IN  [doc |-> RemoveDIShapeForElement(RemoveTask(d2, mid), mid),
         removed |-> x1.removed]

\* the removal part of one outer iteration, for the masked task mid
Excise(x, mid, fl) ==
    LET x1 == RemoveFlows(x, FlowsByTarget(fl, mid) \o FlowsBySource(fl, mid))
        d2 == RemoveAllAssociationsTouchingId(x1.doc, mid)
    IN  [doc |-> RemoveDIShapeForElement(RemoveTask(d2, mid), mid),
         removed |-> x1.removed]

----------------------------------------------------------------------------
(* unionFind over the indices 1..n (the source counts from 0) *)

\* find(x) with path compression: the root and the parent array afterwards
RECURSIVE Find(_, _)
Find(parent, x) ==
    IF parent[x] = x THEN [r |-> x, p |-> parent]
    ELSE LET f == Find(parent, parent[x]) IN [r |-> f.r, p |-> [f.p EXCEPT ![x] = f.r]]

\* Unite, but b itself is hung under a, without looking up the two roots
UniteNoRoots(parent, a, b) == IF a # b THEN [parent EXCEPT ![b] = a] ELSE parent

Unite(parent, a, b) ==
    LET fa == Find(parent, a)
        fb == Find(fa.p, b)
    IN  IF fa.r # fb.r THEN [fb.p EXCEPT ![fb.r] = fa.r] ELSE fb.p

\* groups(): g is the insertion-ordered Map root -> members, as [root, members] entries
RECURSIVE GroupsFrom(_, _, _)
GroupsFrom(parent, i, g) ==
    IF i > Len(parent) THEN [k \in 1..Len(g) |-> g[k].members]
    ELSE LET f == Find(parent, i)
             at == { k \in 1..Len(g) : g[k].root = f.r }
         IN  IF at = {}
             THEN GroupsFrom(f.p, i + 1, Append(g, [root |-> f.r, members |-> <<i>>]))
             ELSE GroupsFrom(f.p, i + 1,
                             [k \in 1..Len(g) |->
                                 IF k \in at THEN [g[k] EXCEPT !.members = Append(@, i)]
                                 ELSE g[k]])

Groups(parent) == GroupsFrom(parent, 1, <<>>)

----------------------------------------------------------------------------
(* fragmentByCoupling *)

\* idToIdx.get(id): the index of the last task with that id, 0 when idToIdx has none
IdToIdx(tasks, id) ==
    IF \E i \in 1..Len(tasks) : tasks[i].id = id
    THEN CHOOSE i \in 1..Len(tasks) :
            tasks[i].id = id /\ \A j \in (i + 1)..Len(tasks) : tasks[j].id # id
    ELSE 0

\* the body of flows.forEach for one flow
UniteFlow(parent, tasks, f, threshold) ==
    IF f.coupling.k = "absent" THEN parent
    ELSE IF ~(ParseFloat(f.coupling) # <<>> /\ ParseFloat(f.coupling)[1] >= threshold) THEN parent
    ELSE IF IdToIdx(tasks, f.src) # 0 /\ IdToIdx(tasks, f.tgt) # 0
         THEN Unite(parent, IdToIdx(tasks, f.src), IdToIdx(tasks, f.tgt))
         ELSE parent

RECURSIVE UniteFlows(_, _, _, _)
UniteFlows(parent, tasks, fl, threshold) ==
    IF fl = <<>> THEN parent
    ELSE UniteFlows(UniteFlow(parent, tasks, Head(fl), threshold), tasks, Tail(fl), threshold)

\* comps: the classes as index lists, singletons dropped when they are not included
Components(d, threshold, includeSingletons) ==
    LET all == Groups(UniteFlows([i \in 1..Len(d.tasks) |-> i], d.tasks, d.flows, threshold))
    IN  IF includeSingletons THEN all ELSE SelectSeq(all, LAMBDA g : Len(g) > 1)

FragmentId(k) == "Fragment_" \o ToString(k)

\* addTextAnnotationForGroup: the annotation, its association and their layout
AddTextAnnotationForGroup(d, groupId) ==
    LET taId == groupId \o "_TA"
        assocId == groupId \o "_TA_Assoc"
        d1 == [d EXCEPT !.annots = Append(@, taId),
                        !.assocs = Append(@, [id |-> assocId, src |-> taId, tgt |-> groupId]),
                        !.shapes = Append(@, taId)]
    IN  IF groupId \in Range(d1.shapes) THEN [d1 EXCEPT !.edges = Append(@, assocId)] ELSE d1

\* the body of comps.forEach for the class `indices` at position idx (from 1)
Materialize(d, indices, idx) ==
    LET fragId == FragmentId(idx)
        memberIds == [i \in 1..Len(indices) |-> d.tasks[indices[i]].id]
        d1 == [d EXCEPT !.cats = Append(@, fragId \o "_CV"),
                        !.groups = Append(@, [id |-> fragId, frag |-> TRUE]),
                        !.shapes = Append(@, fragId),
                        !.assocs = @ \o [i \in 1..Len(memberIds) |->
                                            [id |-> fragId \o "_A_" \o memberIds[i],
                                             src |-> fragId, tgt |-> memberIds[i]]]]
    IN  AddTextAnnotationForGroup(d1, fragId)

RECURSIVE MaterializeFrom(_, _, _)
MaterializeFrom(d, cs, idx) ==
    IF idx > Len(cs) THEN d ELSE MaterializeFrom(Materialize(d, cs[idx], idx), cs, idx + 1)

FragmentByCoupling(d, threshold, includeSingletons) ==
    MaterializeFrom(EnsurePlane(d), Components(d, threshold, includeSingletons), 1)

----------------------------------------------------------------------------
(* clearOldFragments *)

\* /^Fragment_/.test(id)
\* (in ClearOldFragments, g.frag is getAttributeNS(NS.cpl, 'fragmentId') != null, with
\* the DOM's null for a missing attribute)
HasFragmentPrefix(id) == Len(id) >= 9 /\ SubSeq(id, 1, 9) = "Fragment_"

\* ClearOldFragments, but it also drops the annotations that no association touched
\* when the pass began
ClearOrphansFirst(d) ==
    [EnsurePlane(d) EXCEPT
        !.groups = SelectSeq(@, LAMBDA g : ~(g.frag \/ HasFragmentPrefix(g.id))),
        !.shapes = SelectSeq(@, LAMBDA s : ~HasFragmentPrefix(s)),
        !.annots = SelectSeq(@, LAMBDA n : CountAssociationsTouching(d, n) > 0),
        !.assocs = SelectSeq(@, LAMBDA a : ~HasFragmentPrefix(a.src))]

ClearOldFragments(d) ==
    [EnsurePlane(d) EXCEPT
        !.groups = SelectSeq(@, LAMBDA g : ~(g.frag \/ HasFragmentPrefix(g.id))),
        !.shapes = SelectSeq(@, LAMBDA s : ~HasFragmentPrefix(s)),
        !.assocs = SelectSeq(@, LAMBDA a : ~HasFragmentPrefix(a.src))]

----------------------------------------------------------------------------
(* Options of a run (parseArgs): thresholds in tenths, the privacy direction *)

PrivacyThresholds == {5, 10}
Directions == {"above", "below"}
CouplingThresholds == {5, 7}

----------------------------------------------------------------------------
(* maskByPrivacy, one action per position *)

\* FirstPosition, but the removals of an outer iteration come before its synthesis pass
RemovalsFirst == "excise"

\* each outer iteration opens with the synthesis pass, its removals follow
FirstPosition == "synth"

\* entry up to the first outer iteration; an empty masked set returns 0 at once
MaskBegin(threshold, dir) ==
    /\ pc = "idle"
    /\ runs < MaxRuns
    /\ runs' = runs + 1
    /\ lastOp' = "mask"
    /\ opts' = [threshold |-> threshold, dir |-> dir, includeSingletons |-> FALSE]
    /\ LET mids == MaskedIdsOf(doc.tasks, threshold, dir) IN
         /\ doc' = EnsurePlane(doc)
         /\ maskedIds' = mids
         /\ allFlows' = IF mids = <<>> THEN <<>> ELSE doc.flows
         /\ preAssocs' = doc.assocs
         /\ pc' = IF mids = <<>> THEN "idle" ELSE FirstPosition
         /\ lastCount' = IF mids = <<>> THEN 0 ELSE lastCount
    /\ outer' = 1
    /\ counter' = 0
    /\ removedFlowIds' = {}
    /\ autoFlowPairs' = {}
    /\ created' = <<>>
    /\ boundary' = <<>>
    /\ UNCHANGED comps

\* the synthesis pass at the head of outer iteration `outer`
MaskSynth ==
    /\ pc = "synth"
    /\ LET st == SynthPass([doc |-> doc, counter |-> counter, pairs |-> autoFlowPairs,
                            created |-> created], maskedIds, allFlows) IN
         /\ doc' = st.doc
         /\ counter' = st.counter
         /\ autoFlowPairs' = st.pairs
         /\ created' = st.created
    /\ boundary' = Boundaries(maskedIds, allFlows)
    /\ pc' = "excise"
    /\ UNCHANGED <<lastOp, opts, runs, lastCount, comps, maskedIds, allFlows, preAssocs, outer,
                   removedFlowIds>>

\* the removals of outer iteration `outer`; after the last one the run returns
MaskExcise ==
    /\ pc = "excise"
    /\ LET x == Excise([doc |-> doc, removed |-> removedFlowIds], maskedIds[outer], allFlows) IN
         /\ doc' = x.doc
         /\ removedFlowIds' = x.removed
    /\ outer' = outer + 1
    /\ pc' = IF outer < Len(maskedIds) THEN "synth" ELSE "idle"
    /\ lastCount' = IF outer < Len(maskedIds) THEN lastCount ELSE Len(maskedIds)
    /\ UNCHANGED <<lastOp, opts, runs, comps, maskedIds, allFlows, preAssocs, counter,
                   autoFlowPairs, created, boundary>>

MaskRun ==
    \/ \E threshold \in PrivacyThresholds, dir \in Directions : MaskBegin(threshold, dir)
    \/ MaskSynth
    \/ MaskExcise

----------------------------------------------------------------------------
(* main: the cleanup pass and the fragmentation run, one action each *)

ClearRun ==
    /\ pc = "idle"
    /\ runs < MaxRuns
    /\ runs' = runs + 1
    /\ lastOp' = "clear"
    /\ opts' = [threshold |-> 0, dir |-> "", includeSingletons |-> FALSE]
    /\ doc' = ClearOldFragments(doc)
    /\ UNCHANGED <<pc, lastCount, comps, maskVars>>

FragmentRun ==
    /\ pc = "idle"
    /\ runs < MaxRuns
    /\ \E threshold \in CouplingThresholds, includeSingletons \in BOOLEAN :
         LET cs == Components(doc, threshold, includeSingletons) IN
           /\ doc' = FragmentByCoupling(doc, threshold, includeSingletons)
           /\ comps' = [k \in 1..Len(cs) |-> [i \in 1..Len(cs[k]) |-> doc.tasks[cs[k][i]].id]]
           /\ lastCount' = Len(cs)
           /\ lastOp' = "fragment"
           /\ opts' = [threshold |-> threshold, dir |-> "", includeSingletons |-> includeSingletons]
    /\ runs' = runs + 1
    /\ UNCHANGED <<pc, maskVars>>

----------------------------------------------------------------------------
(* Initial documents *)

TaskIds == <<"T1", "T2", "T3", "T4">>

NodePairs == [n \in 1..(Len(TaskIds) * Len(TaskIds)) |->
                <<TaskIds[((n - 1) \div Len(TaskIds)) + 1], TaskIds[((n - 1) % Len(TaskIds)) + 1]>>]

\* flow lists of at most n flows in non-decreasing pair order (parallel flows included)
PairLists(n) ==
    UNION { { ps \in [1..k -> 1..Len(NodePairs)] : \A i \in 1..(k - 1) : ps[i] <= ps[i + 1] }
            : k \in 0..n }

FlowId(i) == "F" \o ToString(i)

\* the flows of the pair list ps; flow number noId carries no id attribute
FlowsOf(ps, noId, weights) ==
    [i \in 1..Len(ps) |->
        [id |-> IF i = noId THEN "" ELSE FlowId(i),
         src |-> NodePairs[ps[i]][1], tgt |-> NodePairs[ps[i]][2],
         coupling |-> weights[i]]]

\* A document over the tasks T1..T4 with the flows fl.  Annotation N1 is attached to
\* the first flow (when it has an id), N2 to T3 and T4, N3 to T4 and T1; G1 is a group
\* that no fragmentation run made.  Laid out, every task, annotation and group has a
\* shape and every identified flow and every association an edge.
Document(fl, privacy, laidOut) ==
    LET onFlow == IF Len(fl) > 0 /\ fl[1].id # ""
                  THEN <<[id |-> "A1", src |-> "N1", tgt |-> fl[1].id]>> ELSE <<>>
        notes == (IF onFlow = <<>> THEN <<>> ELSE <<"N1">>) \o <<"N2", "N3">>
        as == onFlow \o <<[id |-> "A2", src |-> "N2", tgt |-> "T3"],
                          [id |-> "A3", src |-> "T4", tgt |-> "N2"],
                          [id |-> "A4", src |-> "N3", tgt |-> "T4"],
                          [id |-> "A5", src |-> "N3", tgt |-> "T1"]>>
    IN  [tasks |-> [i \in 1..Len(TaskIds) |-> [id |-> TaskIds[i], privacy |-> privacy[i]]],
         flows |-> fl,
         assocs |-> as,
         annots |-> notes,
         groups |-> <<[id |-> "G1", frag |-> FALSE]>>,
         cats |-> <<>>,
         shapes |-> IF laidOut THEN TaskIds \o notes \o <<"G1">> ELSE <<>>,
         edges |-> IF laidOut
                   THEN SelectSeq([i \in 1..Len(fl) |-> fl[i].id], LAMBDA e : e # "")
                        \o [i \in 1..Len(as) |-> as[i].id]
                   ELSE <<>>,
         plane |-> laidOut]

InitRun ==
    /\ pc = "idle"
    /\ lastOp = "none"
    /\ opts = [threshold |-> 0, dir |-> "", includeSingletons |-> FALSE]
    /\ runs = 0
    /\ lastCount = 0
    /\ comps = <<>>
    /\ maskedIds = <<>>
    /\ allFlows = <<>>
    /\ preAssocs = <<>>
    /\ outer = 1
    /\ counter = 0
    /\ removedFlowIds = {}
    /\ autoFlowPairs = {}
    /\ created = <<>>
    /\ boundary = <<>>

----------------------------------------------------------------------------
(* The masking specification: every flow graph of at most MaxFlows flows over four   *)
(* tasks, masking runs only.  T1 is never masked, T2 lies above both thresholds'     *)
(* lower one, T3 sits on the threshold 5, T4 below it.                               *)

MaskPrivacy == <<Absent, Num(9), Num(5), Num(3)>>

NoWeights == [i \in 1..(MaxFlows + 1) |-> Absent]

InitMask ==
    /\ \E ps \in PairLists(MaxFlows) :
         doc = Document(FlowsOf(ps, 0, NoWeights), MaskPrivacy, TRUE)
    /\ InitRun

SpecMask == InitMask /\ [][MaskRun]_vars

----------------------------------------------------------------------------
(* The fragmentation specification: every weighted flow graph of at most            *)
(* MaxFragFlows flows over four tasks, next to three fixed flows: two through the   *)
(* event E1, which is no task, and T3 -> T4 with the weight 5.                      *)

FragWeights == {Absent, TextAttr, Num(5), Num(9)}

FixedFlows ==
    <<[id |-> "X1", src |-> "T1", tgt |-> "E1", coupling |-> Num(9)],
      [id |-> "X2", src |-> "E1", tgt |-> "T2", coupling |-> Num(9)],
      [id |-> "X3", src |-> "T3", tgt |-> "T4", coupling |-> Num(5)]>>

InitFrag ==
    /\ \E ps \in PairLists(MaxFragFlows) : \E weights \in [1..Len(ps) -> FragWeights] :
         doc = Document(FlowsOf(ps, 0, weights) \o FixedFlows,
                        [i \in 1..Len(TaskIds) |-> Absent], FALSE)
    /\ InitRun

SpecFrag == InitFrag /\ [][runs = 0 /\ FragmentRun]_vars

----------------------------------------------------------------------------
(* The session specification: cleanup passes, fragmentation runs and masking runs   *)
(* in any order on the ring T1 -> T3 -> T2 -> T4 -> T1 with at most MaxSessionFlows *)
(* more flows.  The document is laid out or not, its first flow has an id or not,   *)
(* and it is as written or already holds the output of a fragmentation run.  T1 and *)
(* T2 are never masked.                                                             *)

SessionPrivacy == <<TextAttr, Absent, Num(5), Num(3)>>

SessionWeights == [i \in 1..(MaxSessionFlows + 4) |-> IF i % 3 = 0 THEN Absent ELSE Num(9 - 4 * (i % 2))]

Ring == <<3, 10, 8, 13>>

InitSession ==
    /\ \E ps \in PairLists(MaxSessionFlows) : \E laidOut \in BOOLEAN, noId \in {0, 1}, seeded \in BOOLEAN :
         LET d == Document(FlowsOf(Ring \o ps, noId, SessionWeights), SessionPrivacy, laidOut)
         IN  doc = IF seeded THEN FragmentByCoupling(d, 7, TRUE) ELSE d
    /\ InitRun

Next ==
    \/ ClearRun
    \/ FragmentRun
    \/ MaskRun

Spec == InitSession /\ [][Next]_vars

----------------------------------------------------------------------------
(* Graph notions the properties are stated with *)

HasFlow(fl, a, b) == \E i \in 1..Len(fl) : fl[i].src = a /\ fl[i].tgt = b

NodesOf(fl) == { fl[i].src : i \in 1..Len(fl) } \cup { fl[i].tgt : i \in 1..Len(fl) }

\* the non-empty node sequences over M of at most Cardinality(M) nodes
Chains(M) == UNION { [1..k -> M] : k \in 1..Cardinality(M) }

\* c is a path of fl: consecutive nodes are joined by a flow
IsPath(fl, c) == \A i \in 1..(Len(c) - 1) : HasFlow(fl, c[i], c[i + 1])

\* the unmasked nodes with a path to m all of whose other nodes are masked
UnmaskedBefore(m, fl, M) ==
    { u \in NodesOf(fl) \ M :
        \E c \in Chains(M) : c[Len(c)] = m /\ IsPath(fl, c) /\ HasFlow(fl, u, c[1]) }

\* the unmasked nodes with a path from m all of whose other nodes are masked
UnmaskedAfter(m, fl, M) ==
    { v \in NodesOf(fl) \ M :
        \E c \in Chains(M) : c[1] = m /\ IsPath(fl, c) /\ HasFlow(fl, c[Len(c)], v) }

\* a masking run that masked something has returned
MaskDone == pc = "idle" /\ lastOp = "mask" /\ maskedIds # <<>>

----------------------------------------------------------------------------
(* C9: for every masked node m, collectBoundaryNeighbors returns as preds exactly    *)
(* the unmasked nodes with a path to m through masked nodes only, as succs exactly   *)
(* the unmasked nodes with such a path from m, and neither list holds a node twice.  *)
BoundaryExact ==
    \A n \in 1..Len(boundary) :
        /\ Range(boundary[n].preds) = UnmaskedBefore(maskedIds[n], allFlows, Range(maskedIds))
        /\ Range(boundary[n].succs) = UnmaskedAfter(maskedIds[n], allFlows, Range(maskedIds))
        /\ NoDup(boundary[n].preds)
        /\ NoDup(boundary[n].succs)

\* a masked cycle, a predecessor found only through another masked node, and a
\* masked node without any successor
BoundaryWitness ==
    /\ boundary # <<>>
    /\ \E a, b \in Range(maskedIds) : a # b /\ HasFlow(allFlows, a, b) /\ HasFlow(allFlows, b, a)
    /\ \E n \in 1..Len(boundary) :
         /\ boundary[n].succs = <<>>
         /\ \E u \in Range(boundary[n].preds) : ~HasFlow(allFlows, u, maskedIds[n])

----------------------------------------------------------------------------
(* C2: when a masking run has returned, every two distinct unmasked nodes A and B    *)
(* that the document before the run joined by a path A -> m1 -> ... -> mk -> B with  *)
(* all of m1..mk masked are joined by a direct flow A -> B.                          *)
BypassPreserved ==
    MaskDone =>
        \A A, B \in NodesOf(allFlows) \ Range(maskedIds) :
            (/\ A # B
             /\ \E c \in Chains(Range(maskedIds)) :
                    HasFlow(allFlows, A, c[1]) /\ IsPath(allFlows, c) /\ HasFlow(allFlows, c[Len(c)], B))
            => HasFlow(doc.flows, A, B)

\* a run over a chain of two masked nodes between A and B, which no flow joined before
BypassWitness ==
    /\ MaskDone
    /\ \E A, B \in NodesOf(allFlows) \ Range(maskedIds) :
         /\ A # B
         /\ ~HasFlow(allFlows, A, B)
         /\ \E m1, m2 \in Range(maskedIds) :
              /\ m1 # m2
              /\ HasFlow(allFlows, A, m1) /\ HasFlow(allFlows, m1, m2) /\ HasFlow(allFlows, m2, B)
              /\ ~HasFlow(allFlows, A, m2) /\ ~HasFlow(allFlows, m1, B)
         /\ HasFlow(doc.flows, A, B)

----------------------------------------------------------------------------
(* C4: the flows a masking run has synthesized so far hold at most one flow per      *)
(* ordered pair (src, tgt), none for a pair that a flow of the document joined       *)
(* before the run, and none with src = tgt.                                          *)
BypassUnique ==
    \A i \in 1..Len(created) :
        /\ created[i].src # created[i].tgt
        /\ ~HasFlow(allFlows, created[i].src, created[i].tgt)
        /\ \A j \in 1..Len(created) :
              (created[j].src = created[i].src /\ created[j].tgt = created[i].tgt) => i = j

\* the synthesis pass has run twice; two masked nodes share a (pred, succ) pair, which
\* got its one flow, and a pair with src = tgt, which got none
BypassUniqueWitness ==
    /\ pc = "excise" /\ outer = 2
    /\ Len(created) = 1
    /\ \A n \in {1, 2} :
         /\ created[1].src \in Range(boundary[n].preds)
         /\ created[1].tgt \in Range(boundary[n].succs)
         /\ created[1].tgt \in Range(boundary[n].preds)

----------------------------------------------------------------------------
(* C8: once the removals of a masking run have started (an outer iteration is        *)
(* done), a synthesis pass creates no flow: every bypass flow exists before the      *)
(* first removal.                                                                    *)
SynthesisBeforeRemoval ==
    [][(pc = "synth" /\ outer > 1) => (created' = created /\ doc'.flows = doc.flows)]_vars

\* the second synthesis pass has run, after the removals of the first masked node, in
\* a run whose first pass synthesized two flows
SynthesisWitness ==
    /\ pc = "excise" /\ outer = 2
    /\ Len(created) >= 2
    /\ Len(doc.tasks) < Len(TaskIds)

----------------------------------------------------------------------------
(* The privacy predicate as the options state it *)
Qualifies(a, threshold, dir) ==
    /\ a.k = "num"
    /\ \/ dir = "above" /\ a.v >= threshold
       \/ dir = "below" /\ a.v < threshold

(* C7: a masking run masks exactly the tasks whose privacy is a number p with        *)
(* p >= threshold (direction "above") or p < threshold (direction "below"); with     *)
(* nothing to mask it returns 0 and leaves tasks, flows, associations and            *)
(* annotations as they were; otherwise it returns the size of the masked set.        *)
MaskedSetExact ==
    [][/\ (pc = "idle" /\ lastOp' = "mask" /\ runs' = runs + 1) =>
            LET M == { doc.tasks[i].id :
                        i \in { j \in 1..Len(doc.tasks) :
                                  Qualifies(doc.tasks[j].privacy, opts'.threshold, opts'.dir) } }
            IN  /\ Range(maskedIds') = M
                /\ NoDup(maskedIds')
                /\ M = {} => /\ pc' = "idle"
                             /\ lastCount' = 0
                             /\ doc'.tasks = doc.tasks /\ doc'.flows = doc.flows
                             /\ doc'.assocs = doc.assocs /\ doc'.annots = doc.annots
                /\ M # {} => pc' # "idle"
       /\ (pc # "idle" /\ pc' = "idle") => lastCount' = Cardinality(Range(maskedIds))
      ]_vars

\* direction "above" at threshold 5: T2 (9) and T3 (5, on the threshold) are masked,
\* T1 (no privacy) and T4 (3) are not
MaskedSetWitness ==
    /\ pc = "synth" /\ outer = 1
    /\ opts.threshold = 5 /\ opts.dir = "above"
    /\ maskedIds = <<"T2", "T3">>
    /\ { doc.tasks[i].id : i \in 1..Len(doc.tasks) } = {"T1", "T2", "T3", "T4"}

----------------------------------------------------------------------------
(* The coupling graph over the tasks, and the groups as the document holds them *)
TaskIdSet == { doc.tasks[i].id : i \in 1..Len(doc.tasks) }

Coupled(a, b) ==
    \E i \in 1..Len(doc.flows) :
        /\ doc.flows[i].coupling.k = "num"
        /\ doc.flows[i].coupling.v >= opts.threshold
        /\ {doc.flows[i].src, doc.flows[i].tgt} = {a, b}

\* the least set of tasks that holds S and, with a task, every task coupled to it
RECURSIVE CoupledClosure(_)
CoupledClosure(S) ==
    LET more == S \cup { b \in TaskIdSet : \E a \in S : Coupled(a, b) }
    IN  IF more = S THEN S ELSE CoupledClosure(more)

ComponentOf(a) == CoupledClosure({a})

FragmentGroups == SelectSeq(doc.groups, LAMBDA g : g.frag)

MembersOf(g) == { a.tgt : a \in { x \in Range(doc.assocs) : x.src = g.id } }

(* C1: after a fragmentation run the member sets of the fragment groups are exactly  *)
(* the connected components (direction ignored) of the graph over the tasks whose    *)
(* edges are the flows with a weight w >= threshold, one group per component; with   *)
(* singletons included every task is a member of exactly one group, without them     *)
(* the groups are the components of more than one task.                              *)
ComponentsExact ==
    (lastOp = "fragment") =>
        LET wanted == { C \in { ComponentOf(a) : a \in TaskIdSet } :
                          opts.includeSingletons \/ Cardinality(C) > 1 }
        IN  /\ { MembersOf(FragmentGroups[k]) : k \in 1..Len(FragmentGroups) } = wanted
            /\ Len(FragmentGroups) = Cardinality(wanted)
            /\ lastCount = Cardinality(wanted)
            /\ \A k \in 1..Len(comps) : Range(comps[k]) \in wanted /\ NoDup(comps[k])
            /\ opts.includeSingletons =>
                 \A t \in TaskIdSet :
                    Cardinality({ k \in 1..Len(FragmentGroups) : t \in MembersOf(FragmentGroups[k]) }) = 1

\* threshold 5 with singletons: T2, T3 and T4 form one group through T3 -> T4 (weight 5,
\* on the threshold), T1 is a group of its own although T1 -> E1 -> T2 carries weight 9,
\* and an unweighted flow joins T1 to the other group
ComponentsWitness ==
    /\ lastOp = "fragment" /\ opts.threshold = 5 /\ opts.includeSingletons
    /\ Len(FragmentGroups) = 2
    /\ \E k \in 1..2 : MembersOf(FragmentGroups[k]) = {"T1"}
    /\ \E k \in 1..2 : MembersOf(FragmentGroups[k]) = {"T2", "T3", "T4"}
    /\ \E i \in 1..Len(doc.flows) :
         doc.flows[i].coupling.k = "absent" /\ doc.flows[i].src = "T1" /\ doc.flows[i].tgt = "T2"

----------------------------------------------------------------------------
(* The ids of the associations the masking run has removed *)
RemovedAssocIds ==
    { preAssocs[i].id : i \in 1..Len(preAssocs) } \ { doc.assocs[i].id : i \in 1..Len(doc.assocs) }

(* C3: when a masking run has returned, no flow of the document has a removed task   *)
(* as source or target, no association has a removed task or a removed flow as an    *)
(* endpoint, and no layout shape or edge refers to a removed task, flow or           *)
(* association.                                                                      *)
NoDanglingReference ==
    MaskDone =>
        LET gone == Range(maskedIds) \cup removedFlowIds IN
        /\ \A i \in 1..Len(doc.flows) :
              doc.flows[i].src \notin Range(maskedIds) /\ doc.flows[i].tgt \notin Range(maskedIds)
        /\ \A i \in 1..Len(doc.assocs) : doc.assocs[i].src \notin gone /\ doc.assocs[i].tgt \notin gone
        /\ \A i \in 1..Len(doc.shapes) : doc.shapes[i] \notin gone \cup RemovedAssocIds
        /\ \A i \in 1..Len(doc.edges) : doc.edges[i] \notin gone \cup RemovedAssocIds

----------------------------------------------------------------------------
(* C5: every annotation of the document is the sourceRef or targetRef of at least    *)
(* one association of the document.                                                  *)
AnnotationsReferenced ==
    \A i \in 1..Len(doc.annots) : CountAssociationsTouching(doc, doc.annots[i]) > 0

----------------------------------------------------------------------------
(* C6: on every document between two operations, a second cleanup pass changes       *)
(* nothing that the first one left: groups, associations, annotations, shapes,       *)
(* edges and the plane are the same after two passes as after one; in particular     *)
(* the document a cleanup pass has just produced is a fixed point of the pass.       *)
CleanupIdempotent ==
    /\ pc = "idle" => ClearOldFragments(ClearOldFragments(doc)) = ClearOldFragments(doc)
    /\ lastOp = "clear" => ClearOldFragments(doc) = doc

\* the first operation was a cleanup pass on a document holding fragmentation output:
\* the fragment groups are gone, the group G1 that no run made is still there
CleanupWitness ==
    /\ lastOp = "clear" /\ runs = 1
    /\ \E i \in 1..Len(doc.annots) : HasFragmentPrefix(doc.annots[i])
    /\ doc.groups = <<[id |-> "G1", frag |-> FALSE]>>

----------------------------------------------------------------------------
(* C10: the k-th flow a masking run has synthesized has the id AutoFlow_k, and no    *)
(* other flow of the document has that id.                                           *)
FreshAutoFlowIds ==
    \A k \in 1..Len(created) :
        /\ created[k].id = AutoFlowId(k)
        /\ Cardinality({ j \in 1..Len(doc.flows) : doc.flows[j].id = created[k].id }) = 1

----------------------------------------------------------------------------
(* The ids of the groups, category values, annotations and associations, in that order *)
EntityIds ==
    [i \in 1..Len(doc.groups) |-> doc.groups[i].id] \o doc.cats \o doc.annots
        \o [i \in 1..Len(doc.assocs) |-> doc.assocs[i].id]

\* the lowest document position of a task among the member ids ms
LowestIndex(ms) ==
    CHOOSE i \in 1..Len(doc.tasks) :
        /\ doc.tasks[i].id \in Range(ms)
        /\ \A j \in 1..(i - 1) : doc.tasks[j].id \notin Range(ms)

\* the k-th retained class, in the order of the lowest-indexed members, is the k-th
\* group the run appended: its id is Fragment_k and it has one association per member
FragmentOrdinals ==
    (lastOp = "fragment") =>
        /\ Len(doc.groups) >= Len(comps)
        /\ \A k \in 1..Len(comps) :
              /\ doc.groups[Len(doc.groups) - Len(comps) + k] = [id |-> FragmentId(k), frag |-> TRUE]
              /\ \A m \in Range(comps[k]) :
                    [id |-> FragmentId(k) \o "_A_" \o m, src |-> FragmentId(k), tgt |-> m]
                        \in Range(doc.assocs)
              /\ \A l \in (k + 1)..Len(comps) : LowestIndex(comps[k]) < LowestIndex(comps[l])

(* C11: after a fragmentation run the k-th retained class (classes in the order of  *)
(* their lowest-indexed member, k from 1 after the singleton filter) is the group    *)
(* with the id Fragment_k, and no two of the groups, category values, annotations    *)
(* and associations of the document share an id, whether or not a cleanup pass ran   *)
(* first and whether or not the document held the output of an earlier run.          *)
FragmentIdsCollisionFree ==
    /\ FragmentOrdinals
    /\ (lastOp = "fragment") => NoDup(EntityIds)

----------------------------------------------------------------------------
\* how often x occurs in the sequence s
CountOf(s, x) == Cardinality({ i \in 1..Len(s) : s[i] = x })

(* C12: in every step of a session of cleanup passes, fragmentation runs and         *)
(* masking runs, a task leaves the document only inside a masking run whose privacy  *)
(* predicate it satisfies, and a flow only inside a masking run in which its source  *)
(* or its target is masked; every other task, and every flow whose source and        *)
(* target are both unmasked, is in the document afterwards as it was before, with    *)
(* the same id, source and target.                                                   *)
FrameEffect ==
    [][LET masking == pc \in {"synth", "excise"}
           M == IF masking THEN Range(maskedIds) ELSE {}
       IN  /\ \A t \in Range(doc.tasks) :
                 CountOf(doc'.tasks, t) < CountOf(doc.tasks, t) =>
                    masking /\ t.id \in M /\ Qualifies(t.privacy, opts.threshold, opts.dir)
           /\ \A t \in Range(doc.tasks) :
                 ~(masking /\ Qualifies(t.privacy, opts.threshold, opts.dir)) =>
                    CountOf(doc'.tasks, t) = CountOf(doc.tasks, t)
           /\ \A f \in Range(doc.flows) :
                 CountOf(doc'.flows, f) < CountOf(doc.flows, f) =>
                    masking /\ (f.src \in M \/ f.tgt \in M)
           /\ \A f \in Range(doc.flows) :
                 (f.src \notin M /\ f.tgt \notin M) =>
                    CountOf(doc'.flows, f) >= CountOf(doc.flows, f)
      ]_vars

\* the second operation on a document with fragmentation output was a masking run
\* that masked T3 alone: T3 and the flow T3 -> T2 are gone, T1, T2 and T4 and the
\* flows T2 -> T4 and T4 -> T1 are there as they were
FrameWitness ==
    /\ MaskDone /\ runs = 2 /\ maskedIds = <<"T3">>
    /\ \E i \in 1..Len(doc.groups) : doc.groups[i].frag
    /\ [i \in 1..Len(doc.tasks) |-> doc.tasks[i].id] = <<"T1", "T2", "T4">>
    /\ \A i \in 1..Len(doc.flows) : doc.flows[i].id # FlowId(2)
    /\ \E i \in 1..Len(doc.flows) :
         doc.flows[i].id = FlowId(3) /\ doc.flows[i].src = "T2" /\ doc.flows[i].tgt = "T4"
    /\ \E i \in 1..Len(doc.flows) :
         doc.flows[i].id = FlowId(4) /\ doc.flows[i].src = "T4" /\ doc.flows[i].tgt = "T1"

====
